---------------------------- MODULE Spec2Model ----------------------------
(***************************************************************************)
(* Model of the inverse-geometry notebook src/1_invgeom.ipynb.             *)
(*                                                                         *)
(* The notebook is a straight-line program of cells: task parameters, the  *)
(* numeric error function and the visualizer callback, a BFGS run          *)
(* (Path A), the construction of the CasADi graph and an IPOPT run         *)
(* (Path B), and a final print.  The state is the notebook's globals, the  *)
(* shared forward-kinematics cache `data`, the viewer, the optimizers'     *)
(* iterates and the position of the program.                               *)
(*                                                                         *)
(* Rigid placements are real-valued in the notebook.  Here they live on a  *)
(* lattice: a planar chain of NQ revolute joints whose angles are whole    *)
(* quarter turns and whose links have unit length.  Composition, inverse   *)
(* and the logarithm are computed exactly on that lattice, so the group    *)
(* laws the notebook relies on are those of the model.  The optimizers are *)
(* external: which trial configuration they pick next is a                 *)
(* nondeterministic choice, their loop structure (evaluate, step,          *)
(* callback, stop on a criterion or on the iteration budget) is kept.      *)
(***************************************************************************)
EXTENDS Integers, Sequences, FiniteSets, TLC

\* ------------------------------------------------------------------ bounds
\* Degrees of freedom of the chain (model.nq; 6 for the UR5).
NQ == 2
\* Iteration budget of one optimizer call (scipy: maxiter; Ipopt: max_iter).
MaxIter == 2
\* Objective evaluations inside one BFGS iteration (finite differences and
\* line search are both bounded loops).
MaxTrials == 2

\* A string that was never set.
None == "none"
\* A configuration that was never set: the empty vector.
NoConfig == <<>>
\* A graph that was never built: the empty function.
NoGraph == <<>>

\* ------------------------------------------------------------------ SE(2) lattice
Joints == 1..NQ
Q == [Joints -> 0..3]

\* A vector of the plane, and a placement: a rotation (in quarter turns) and
\* a translation.
Vector == Int \X Int
Pose == [rot : 0..3, trans : Vector]

\* pin.SE3(rotation, translation).
SE3(r, t) == [rot |-> r % 4, trans |-> t]

Identity == SE3(0, <<0, 0>>)

\* A placement that was never set.
NoPose == [rot |-> 0, trans |-> <<>>]

\* The rotation matrix of r quarter turns applied to a vector.
Rotate ==
    [r \in 0..3, v \in Vector |->
        CASE r = 0 -> v
          [] r = 1 -> <<-v[2], v[1]>>
          [] r = 2 -> <<-v[1], -v[2]>>
          [] r = 3 -> <<v[2], -v[1]>>]

\* SE3.__mul__: a * b.
Compose ==
    [a \in Pose, b \in Pose |->
        LET t == Rotate[a.rot, b.trans]
        IN  SE3(a.rot + b.rot, <<a.trans[1] + t[1], a.trans[2] + t[2]>>)]

\* SE3.inverse().
Inverse ==
    [a \in Pose |->
        LET t == Rotate[(4 - a.rot) % 4, a.trans]
        IN  SE3(4 - a.rot, <<-t[1], -t[2]>>)]

\* pin.log / cpin.log6 followed by .vector: the twist <<v, w>> of a placement.
\* The angle w is the representative in -1..2 (quarter turns); the linear part
\* is V(w)^-1 applied to the translation, in units where a quarter turn's
\* V^-1 is the integer matrix [[1, 1], [-1, 1]].
Log6 ==
    [M \in Pose |->
        LET x == M.trans[1]
            y == M.trans[2]
        IN  CASE M.rot = 0 -> <<x, y, 0>>
              [] M.rot = 1 -> <<x + y, y - x, 1>>
              [] M.rot = 2 -> <<2 * y, -2 * x, 2>>
              [] M.rot = 3 -> <<x - y, x + y, -1>>]

\* casadi.sumsqr.
SumSqr == [v \in Int \X Int \X Int |-> v[1] * v[1] + v[2] * v[2] + v[3] * v[3]]

\* numpy.linalg.norm: the square root of the sum of squares, kept exact as
\* the number under the root.
Norm(v) == [sqrt |-> SumSqr[v]]

\* The square of a norm.
Square(r) == r.sqrt

\* ------------------------------------------------------------------ the robot model
\* Placement of joint j in its parent joint: the first joint sits at the
\* origin, every other one at the end of a link of unit length.
JointPlacement(j) == IF j = 1 THEN Identity ELSE SE3(0, <<1, 0>>)

\* model.frames: the universe, one frame per joint, and the tool frame fixed
\* on the last joint.
Frames ==
    [i \in 1..(NQ + 2) |->
        IF i = 1 THEN [name |-> "universe", parent |-> 0, placement |-> Identity]
        ELSE IF i = NQ + 2
             THEN [name |-> "tool0", parent |-> NQ,
                   placement |-> SE3(3, <<0, 1>>)]
             ELSE [name |-> "joint", parent |-> i - 1, placement |-> Identity]]

\* model.getFrameId(name).
getFrameId(name) == CHOOSE i \in DOMAIN Frames : Frames[i].name = name

\* Placement of every joint in the world at configuration q (data.oMi):
\* joint j is carried by joint j - 1 and turned by q[j]; joint 0 is the world.
JointsInWorld(q) ==
    LET oMi[j \in 0..NQ] ==
            IF j = 0 THEN Identity
            ELSE Compose[Compose[oMi[j - 1], JointPlacement(j)],
                         SE3(q[j], <<0, 0>>)]
    IN  oMi

\* The placements of every joint (oMi) and of every frame (oMf) of the model,
\* at each configuration.
Kinematics ==
    [q \in Q |->
        [oMi |-> [j \in 0..NQ |-> JointsInWorld(q)[j]],
         oMf |-> [i \in DOMAIN Frames |->
                    Compose[JointsInWorld(q)[Frames[i].parent],
                            Frames[i].placement]]]]

\* pin.framesForwardKinematics(model, data, q): the cache it leaves behind.
framesForwardKinematics(q) == Kinematics[q]

\* model.createData(): every placement is the identity.
createData ==
    [oMi |-> [j \in 0..NQ |-> Identity],
     oMf |-> [i \in DOMAIN Frames |-> Identity]]

\* The index robot.placement is called with: the last joint.
PlacementIndex == NQ

\* robot.placement(q, index): runs forward kinematics on the shared cache
\* and returns data.oMi[index].
placement(q, index) ==
    [data |-> framesForwardKinematics(q),
     value |-> framesForwardKinematics(q).oMi[index]]

\* ------------------------------------------------------------------ task parameters
\* The target placement, on the lattice: one the chain can reach (at q =
\* <<1, 2>>; q = <<0, 0>> reaches its position with another orientation) and
\* one out of reach.
Targets == {SE3(2, <<1, 1>>), SE3(0, <<3, 3>>)}

\* qguess = [0.12, -2.2, -1.45, 1.82, -0.95, 0.17], to the nearest quarter turn.
QGuessTurns == <<0, 3, 3, 1, 3, 0>>
QGuess == [j \in Joints |-> QGuessTurns[((j - 1) % 6) + 1]]

\* The value of an Opti variable that was given no initial value.
ZeroConfig == [j \in Joints |-> 0]

VARIABLES
    pc,                         \* position of the notebook
    tool_id,                    \* frame index of "tool0"
    transform_target_to_world,  \* target placement
    data,                       \* numeric forward-kinematics cache (robot.data)
    viewer,                     \* what the visualizer shows
    qguess, qopt,               \* Path A: initial guess and result
    xk,                         \* BFGS: current iterate
    trial,                      \* BFGS: last trial configuration and its error
    k,                          \* iterations of the running optimizer
    ntrial,                     \* BFGS: evaluations in the current iteration
    warnflag,                   \* BFGS: termination flag
    stdout, stderr,             \* what the cells printed
    cdata,                      \* symbolic forward-kinematics graph
    error_tool,                 \* casadi.Function "etool"
    totalcost,                  \* symbolic objective
    opti,                       \* casadi.Opti: solver state
    sol_q,                      \* Path B: result
    exc,                        \* the statement of the try block that raised
    printed                     \* placements the two print cells reported

vars == <<pc, tool_id, transform_target_to_world, data, viewer, qguess, qopt,
          xk, trial, k, ntrial, warnflag, stdout, stderr, cdata, error_tool,
          totalcost, opti, sol_q, exc, printed>>

taskVars == <<tool_id, transform_target_to_world>>
bfgsVars == <<qguess, qopt, xk, trial, k, ntrial, warnflag>>
casadiVars == <<cdata, error_tool, totalcost>>
ipoptVars == <<opti, sol_q, exc>>


\* ------------------------------------------------------------------ error and callback
\* error without its call of forward kinematics: the tool frame is read from
\* the cache as the previous call left it.
error_stale(d, q, tid, target) ==
    [data |-> d,
     value |-> Norm(Log6[Compose[Inverse[d.oMf[tid]], target]])]

\* error as the distance between positions only, the orientation ignored.
error_position(d, q, tid, target) ==
    LET after == framesForwardKinematics(q)
        p == after.oMf[tid].trans
    IN  [data |-> after,
         value |-> Norm(<<target.trans[1] - p[1], target.trans[2] - p[2], 0>>)]

\* error(q): runs forward kinematics on the shared cache, reads the tool
\* frame from it and returns the norm of the twist from the tool to the
\* target.  d is the cache before the call.
error(d, q, tid, target) ==
    LET after == framesForwardKinematics(q)
        transform_tool_to_world == after.oMf[tid]
    IN  [data |-> after,
         value |-> Norm(Log6[Compose[Inverse[transform_tool_to_world], target]])]

\* callback(q): runs forward kinematics on the same shared cache, moves the
\* two frames of the viewer and displays q.  (time.sleep changes no state.)
callback(d, q, tid, target) ==
    LET after == framesForwardKinematics(q)
        transform_frame_to_world == after.oMf[tid]
    IN  [data |-> after,
         viewer |-> [target |-> target,
                     current |-> transform_frame_to_world,
                     q |-> q]]

\* robot.q0 = [0, -pi/2, 0, 0, 0, 0], in quarter turns.
RobotQ0 == [j \in Joints |-> IF j = 2 THEN 3 ELSE 0]

\* ------------------------------------------------------------------ initial state
\* No trial evaluation is at hand.
NoTrial == [q |-> NoConfig, f |-> Norm(<<0, 0, 0>>)]

\* casadi.Opti() as created: a variable whose initial value is zero, no
\* objective, no solver, no callback, nothing solved.
newOpti ==
    [initial |-> ZeroConfig, objective |-> None, solver |-> None,
     callback |-> FALSE, value |-> NoConfig, f |-> -1, status |-> None]

\* The name opti before the cell that creates it.
NoOpti == [newOpti EXCEPT !.initial = NoConfig]

\* The state after the imports, robex.load and the set-up of the viewer.
Init ==
    /\ pc = "task_params"
    /\ tool_id = 0
    /\ transform_target_to_world = NoPose
    /\ data = createData
    /\ viewer = [target |-> Identity, current |-> Identity, q |-> RobotQ0]
    /\ qguess = NoConfig
    /\ qopt = NoConfig
    /\ xk = NoConfig
    /\ trial = NoTrial
    /\ k = 0
    /\ ntrial = 0
    /\ warnflag = -1
    /\ stdout = {}
    /\ stderr = {}
    /\ cdata = NoGraph
    /\ error_tool = NoGraph
    /\ totalcost = NoGraph
    /\ opti = NoOpti
    /\ sol_q = NoConfig
    /\ exc = None
    /\ printed = [bfgs |-> NoPose, ipopt |-> NoPose]

\* ------------------------------------------------------------------ task parameters
\* Cell invgeom_task_params: the frame index and the target placement.
TaskParams ==
    /\ pc = "task_params"
    /\ tool_id' = getFrameId("tool0")
    /\ \E target \in Targets : transform_target_to_world' = target
    /\ pc' = "bfgs_start"
    /\ UNCHANGED <<data, viewer, bfgsVars, stdout, stderr, casadiVars,
                   ipoptVars, printed>>

\* ------------------------------------------------------------------ Path A: BFGS
\* qguess = ...; fmin_bfgs(error, qguess, callback=callback) starts: the
\* first iterate is qguess and the objective is evaluated there.
BfgsStart ==
    /\ pc = "bfgs_start"
    /\ qguess' = QGuess
    /\ xk' = QGuess
    /\ LET r == error(data, QGuess, tool_id, transform_target_to_world)
       IN  /\ data' = r.data
           /\ trial' = [q |-> QGuess, f |-> r.value]
    /\ k' = 0
    /\ ntrial' = 0
    /\ pc' = "bfgs_iter"
    /\ UNCHANGED <<taskVars, viewer, qopt, warnflag, stdout, stderr,
                   casadiVars, ipoptVars, printed>>

\* One objective evaluation of the optimizer, at a trial configuration of
\* its choice (a finite-difference perturbation or a line-search point).
BfgsTrial(q) ==
    /\ pc = "bfgs_iter"
    /\ k < MaxIter
    /\ ntrial < MaxTrials
    /\ LET r == error(data, q, tool_id, transform_target_to_world)
       IN  /\ data' = r.data
           /\ trial' = [q |-> q, f |-> r.value]
    /\ ntrial' = ntrial + 1
    /\ UNCHANGED <<pc, taskVars, viewer, qguess, qopt, xk, k, warnflag,
                   stdout, stderr, casadiVars, ipoptVars, printed>>

\* An optimizer that ends an iteration without calling the callback.
BfgsAccept_noCallback ==
    /\ pc = "bfgs_iter"
    /\ k < MaxIter
    /\ ntrial > 0
    /\ xk' = trial.q
    /\ k' = k + 1
    /\ ntrial' = 0
    /\ pc' = "bfgs_iter"
    /\ UNCHANGED <<taskVars, data, viewer, qguess, qopt, trial, warnflag,
                   stdout, stderr, casadiVars, ipoptVars, printed>>

\* The optimizer ends an iteration: the line search's point becomes the
\* iterate, and the callback is due.
BfgsAccept ==
    /\ pc = "bfgs_iter"
    /\ k < MaxIter
    /\ ntrial > 0
    /\ xk' = trial.q
    /\ k' = k + 1
    /\ ntrial' = 0
    /\ pc' = "bfgs_cb"
    /\ UNCHANGED <<taskVars, data, viewer, qguess, qopt, trial, warnflag,
                   stdout, stderr, casadiVars, ipoptVars, printed>>

\* A callback that writes through the array it is handed: the iterate is
\* reset to the displayed neutral configuration.
BfgsCallback_inplace ==
    /\ pc = "bfgs_cb"
    /\ LET r == callback(data, xk, tool_id, transform_target_to_world)
       IN  /\ data' = r.data
           /\ viewer' = r.viewer
    /\ xk' = RobotQ0
    /\ pc' = "bfgs_iter"
    /\ UNCHANGED <<taskVars, qguess, qopt, trial, k, ntrial, warnflag, stdout,
                   stderr, casadiVars, ipoptVars, printed>>

\* The optimizer calls callback(xk) at the end of the iteration.
BfgsCallback ==
    /\ pc = "bfgs_cb"
    /\ LET r == callback(data, xk, tool_id, transform_target_to_world)
       IN  /\ data' = r.data
           /\ viewer' = r.viewer
    /\ pc' = "bfgs_iter"
    /\ UNCHANGED <<taskVars, bfgsVars, stdout, stderr, casadiVars, ipoptVars,
                   printed>>

\* An fmin_bfgs that raises instead of warning when it did not converge.
BfgsReturn_raises(flag) ==
    /\ pc = "bfgs_iter"
    /\ flag = 1 <=> k = MaxIter
    /\ warnflag' = flag
    /\ IF flag = 0
       THEN /\ qopt' = xk
            /\ pc' = "bfgs_print"
       ELSE /\ qopt' = qopt
            /\ pc' = "raised"
    /\ trial' = NoTrial
    /\ ntrial' = 0
    /\ UNCHANGED <<taskVars, data, viewer, qguess, xk, k, stdout, stderr,
                   casadiVars, ipoptVars, printed>>

\* fmin_bfgs returns its last iterate, whatever the reason it stopped for:
\* 0 the gradient is small enough, 1 the iteration budget is used up, 2 the
\* line search failed (precision loss).  Flags 1 and 2 only print a warning.
\* The result is assigned to qopt.
BfgsReturn(flag) ==
    /\ pc = "bfgs_iter"
    /\ flag = 1 <=> k = MaxIter
    /\ warnflag' = flag
    /\ qopt' = xk
    /\ stdout' = stdout \cup {"Current function value", "Iterations"}
    /\ stderr' = IF flag = 0 THEN stderr
                 ELSE IF flag = 1
                      THEN stderr \cup {"Maximum number of iterations has been exceeded."}
                      ELSE stderr \cup {"Desired error not necessarily achieved due to precision loss."}
    /\ trial' = NoTrial
    /\ ntrial' = 0
    /\ pc' = "bfgs_print"
    /\ UNCHANGED <<taskVars, data, viewer, qguess, xk, k, casadiVars,
                   ipoptVars, printed>>

\* print(..., robot.placement(qopt, 6)).
BfgsPrint ==
    /\ pc = "bfgs_print"
    /\ LET r == placement(qopt, PlacementIndex)
       IN  /\ data' = r.data
           /\ printed' = [printed EXCEPT !.bfgs = r.value]
    /\ stdout' = stdout \cup {"The robot finally reached effector placement at"}
    /\ pc' = "casadi_model"
    /\ UNCHANGED <<taskVars, viewer, bfgsVars, stderr, casadiVars, ipoptVars>>

\* ------------------------------------------------------------------ Path B: the graph
\* cpin.SE3(M): the symbolic placement with M's rotation and translation.
cSE3(M) == SE3(M.rot, M.trans)

\* Cells invgeom_casadi_model and invgeom_cq: cmodel = cpin.Model(model),
\* cdata = cmodel.createData(), cq = SX.sym.  The symbolic cache is a
\* function of cq; fresh, it is constant.
CasadiModel ==
    /\ pc = "casadi_model"
    /\ cdata' = [cq \in Q |-> createData]
    /\ pc' = "casadi_fk"
    /\ UNCHANGED <<taskVars, data, viewer, bfgsVars, stdout, stderr,
                   error_tool, totalcost, ipoptVars, printed>>

\* cpin.framesForwardKinematics(cmodel, cdata, cq): the symbolic cache now
\* holds the placements as expressions of cq, from the same model.
CasadiFK ==
    /\ pc = "casadi_fk"
    /\ cdata' = [cq \in Q |-> framesForwardKinematics(cq)]
    /\ pc' = "casadi_error"
    /\ UNCHANGED <<taskVars, data, viewer, bfgsVars, stdout, stderr,
                   error_tool, totalcost, ipoptVars, printed>>

\* A graph built on the frame before the tool frame.
CasadiError_otherFrame ==
    /\ pc = "casadi_error"
    /\ error_tool' =
         [cq \in Q |->
            Log6[Compose[Inverse[cdata[cq].oMf[tool_id - 1]],
                         cSE3(transform_target_to_world)]]]
    /\ pc' = "casadi_graph"
    /\ UNCHANGED <<taskVars, data, viewer, bfgsVars, stdout, stderr, cdata,
                   totalcost, ipoptVars, printed>>

\* error_tool = casadi.Function("etool", [cq], [log6(oMf[tool_id]^-1 * target)]).
CasadiError ==
    /\ pc = "casadi_error"
    /\ error_tool' =
         [cq \in Q |->
            Log6[Compose[Inverse[cdata[cq].oMf[tool_id]],
                         cSE3(transform_target_to_world)]]]
    /\ pc' = "casadi_graph"
    /\ UNCHANGED <<taskVars, data, viewer, bfgsVars, stdout, stderr, cdata,
                   totalcost, ipoptVars, printed>>

\* opti = casadi.Opti(); var_q = opti.variable(nq);
\* totalcost = sumsqr(error_tool(var_q)).
CasadiGraph ==
    /\ pc = "casadi_graph"
    /\ opti' = newOpti
    /\ totalcost' = [var_q \in Q |-> SumSqr[error_tool[var_q]]]
    /\ pc' = "ipopt_setup"
    /\ UNCHANGED <<taskVars, data, viewer, bfgsVars, stdout, stderr, cdata,
                   error_tool, sol_q, exc, printed>>

\* ------------------------------------------------------------------ Path B: IPOPT
\* opti.minimize(totalcost); opti.solver("ipopt"); opti.callback(...).
IpoptSetup ==
    /\ pc = "ipopt_setup"
    /\ opti' = [opti EXCEPT !.objective = "totalcost", !.solver = "ipopt",
                            !.callback = TRUE]
    /\ pc' = "ipopt_solve"
    /\ UNCHANGED <<taskVars, data, viewer, bfgsVars, stdout, stderr,
                   casadiVars, sol_q, exc, printed>>

\* A solve that is warm-started from the result of the BFGS run.
IpoptStart_warm ==
    /\ pc = "ipopt_solve"
    /\ opti' = [opti EXCEPT !.value = qopt, !.f = totalcost[qopt]]
    /\ k' = 0
    /\ pc' = "ipopt_cb"
    /\ UNCHANGED <<taskVars, data, viewer, qguess, qopt, xk, trial, ntrial,
                   warnflag, stdout, stderr, casadiVars, sol_q, exc, printed>>

\* opti.solve_limited() starts: iteration 0 is at the variable's initial
\* value, the objective is evaluated there and the callback is due.
IpoptStart ==
    /\ pc = "ipopt_solve"
    /\ opti' = [opti EXCEPT !.value = opti.initial,
                            !.f = totalcost[opti.initial]]
    /\ k' = 0
    /\ pc' = "ipopt_cb"
    /\ UNCHANGED <<taskVars, data, viewer, qguess, qopt, xk, trial, ntrial,
                   warnflag, stdout, stderr, casadiVars, sol_q, exc, printed>>

\* A callback that assigns the placement it displays to the target.
IpoptCallback_retarget ==
    /\ pc = "ipopt_cb"
    /\ LET r == callback(data, opti.value, tool_id, transform_target_to_world)
       IN  /\ data' = r.data
           /\ viewer' = r.viewer
           /\ transform_target_to_world' = r.viewer.current
    /\ pc' = "ipopt_iter"
    /\ UNCHANGED <<tool_id, bfgsVars, stdout, stderr, casadiVars, ipoptVars,
                   printed>>

\* The solver calls lambda i: callback(opti.debug.value(var_q)).
IpoptCallback ==
    /\ pc = "ipopt_cb"
    /\ opti.callback
    /\ LET r == callback(data, opti.value, tool_id, transform_target_to_world)
       IN  /\ data' = r.data
           /\ viewer' = r.viewer
    /\ pc' = "ipopt_iter"
    /\ UNCHANGED <<taskVars, bfgsVars, stdout, stderr, casadiVars, ipoptVars,
                   printed>>

\* A solver iteration that no budget stops.
IpoptStep_unbounded(q) ==
    /\ pc = "ipopt_iter"
    /\ opti' = [opti EXCEPT !.value = q, !.f = totalcost[q]]
    /\ k' = k
    /\ pc' = "ipopt_cb"
    /\ UNCHANGED <<taskVars, data, viewer, qguess, qopt, xk, trial, ntrial,
                   warnflag, stdout, stderr, casadiVars, sol_q, exc, printed>>

\* One iteration of the solver: a new iterate of its choice, the objective
\* evaluated there through the graph.
IpoptStep(q) ==
    /\ pc = "ipopt_iter"
    /\ k < MaxIter
    /\ opti' = [opti EXCEPT !.value = q, !.f = totalcost[q]]
    /\ k' = k + 1
    /\ pc' = "ipopt_cb"
    /\ UNCHANGED <<taskVars, data, viewer, qguess, qopt, xk, trial, ntrial,
                   warnflag, stdout, stderr, casadiVars, sol_q, exc, printed>>

\* The return statuses of the solver that the model tells apart.
IpoptStatuses ==
    {"Solve_Succeeded", "Maximum_Iterations_Exceeded", "Restoration_Failed"}

\* Opti's return_success(accept_limit).
return_success(status, accept_limit) ==
    \/ status = "Solve_Succeeded"
    \/ accept_limit /\ status = "Maximum_Iterations_Exceeded"

\* sol = opti.solve_limited() ends: it returns when the status is a success
\* or a limit, and raises otherwise.
IpoptFinish(status) ==
    /\ pc = "ipopt_iter"
    /\ status = "Maximum_Iterations_Exceeded" <=> k = MaxIter
    /\ opti' = [opti EXCEPT !.status = status]
    /\ IF return_success(status, TRUE)
       THEN /\ pc' = "ipopt_value"
            /\ exc' = exc
       ELSE /\ pc' = "ipopt_except"
            /\ exc' = "solve_limited"
    /\ UNCHANGED <<taskVars, data, viewer, bfgsVars, stdout, stderr,
                   casadiVars, sol_q, printed>>

\* sol_q = opti.value(var_q), inside the try block: it yields the solver's
\* latest values, or raises.
IpoptValue(ok) ==
    /\ pc = "ipopt_value"
    /\ IF ok
       THEN /\ sol_q' = opti.value
            /\ pc' = "final_print"
            /\ exc' = exc
       ELSE /\ sol_q' = sol_q
            /\ pc' = "ipopt_except"
            /\ exc' = "value"
    /\ UNCHANGED <<taskVars, data, viewer, bfgsVars, stdout, stderr,
                   casadiVars, opti, printed>>

\* A handler that prints and raises again.
IpoptExcept_reraise ==
    /\ pc = "ipopt_except"
    /\ stdout' = stdout \cup {"ERROR in convergence, plotting debug info."}
    /\ pc' = "raised"
    /\ UNCHANGED <<taskVars, data, viewer, bfgsVars, stderr, casadiVars,
                   ipoptVars, printed>>

\* except: print(...); sol_q = opti.debug.value(var_q).
IpoptExcept ==
    /\ pc = "ipopt_except"
    /\ stdout' = stdout \cup {"ERROR in convergence, plotting debug info."}
    /\ sol_q' = opti.value
    /\ pc' = "final_print"
    /\ UNCHANGED <<taskVars, data, viewer, bfgsVars, stderr, casadiVars,
                   opti, exc, printed>>

\* Cell invgeom_check_final_placement: print(..., robot.placement(sol_q, 6)).
FinalPrint ==
    /\ pc = "final_print"
    /\ LET r == placement(sol_q, PlacementIndex)
       IN  /\ data' = r.data
           /\ printed' = [printed EXCEPT !.ipopt = r.value]
    /\ pc' = "done"
    /\ UNCHANGED <<taskVars, viewer, bfgsVars, stdout, stderr, casadiVars,
                   ipoptVars>>

\* ------------------------------------------------------------------ specification
Next ==
    \/ TaskParams
    \/ BfgsStart
    \/ \E q \in Q : BfgsTrial(q)
    \/ BfgsAccept
    \/ BfgsCallback
    \/ \E flag \in 0..2 : BfgsReturn(flag)
    \/ BfgsPrint
    \/ CasadiModel
    \/ CasadiFK
    \/ CasadiError
    \/ CasadiGraph
    \/ IpoptSetup
    \/ IpoptStart
    \/ IpoptCallback
    \/ \E q \in Q : IpoptStep(q)
    \/ \E status \in IpoptStatuses : IpoptFinish(status)
    \/ \E ok \in BOOLEAN : IpoptValue(ok)
    \/ IpoptExcept
    \/ FinalPrint

Spec == Init /\ [][Next]_vars

\* The notebook runs on one thread and never waits: a cell that can take
\* its next step takes it.
FairSpec == Spec /\ WF_vars(Next)

\* ------------------------------------------------------------------ properties
\* What error(q) returns when it is called in the current state.
ErrorOf(q) == error(data, q, tool_id, transform_target_to_world).value

\* The tool placement at q.
ToolPlacement(q) == framesForwardKinematics(q).oMf[tool_id]

AfterIpoptCell == pc \in {"final_print", "done"}

\* C1: in the IPOPT cell a failure of solve_limited or of the read of the
\* solution is caught: the diagnostic is printed, sol_q is the solver's
\* debug iterate, no failure leaves the cell, and sol_q is a configuration
\* on every path out of the cell.
C1_SolverFailureFallsBack ==
    /\ pc # "raised"
    /\ AfterIpoptCell => sol_q \in Q
    /\ (AfterIpoptCell /\ exc # None) =>
          /\ "ERROR in convergence, plotting debug info." \in stdout
          /\ sol_q = opti.value

\* C1, reached: solve_limited raised and the notebook ran to its end.
C1_Witness ==
    /\ pc = "done"
    /\ exc = "solve_limited"
    /\ sol_q = opti.value
    /\ printed.ipopt # NoPose

\* C2: a callback invocation, in either optimizer, leaves the optimizer's
\* state as it was: its iterate, counters and solver state do not change,
\* and every value the error function (or the graph) would return next is
\* the value it would have returned without the invocation.
C2_CallbackObservational ==
    [][(pc \in {"bfgs_cb", "ipopt_cb"}) =>
          (/\ UNCHANGED <<xk, trial, k, ntrial, qguess, opti, totalcost,
                          error_tool>>
           /\ \A q \in Q :
                 error(data', q, tool_id', transform_target_to_world').value
                   = ErrorOf(q))]_vars

\* C2, reached: the callback ran on an iterate and the optimizer then
\* evaluated the error at another configuration.
C2_Witness ==
    /\ pc = "bfgs_iter"
    /\ k > 0
    /\ viewer.q = xk
    /\ ntrial > 0
    /\ trial.q # xk

\* C3: the result of error(q) is the same in every state of a run, whatever
\* evaluations and callbacks wrote the shared cache in between; and each
\* value an evaluation returns is the one the same call returned before.
C3_ErrorIdempotent ==
    [][(tool_id \in DOMAIN Frames) =>
          (/\ \A q \in Q :
                 error(data', q, tool_id', transform_target_to_world').value
                   = ErrorOf(q)
           /\ (trial' # NoTrial /\ trial' # trial) =>
                 trial'.f = ErrorOf(trial'.q))]_vars

\* C3, reached: error was evaluated at qguess, a callback then wrote the
\* cache at another configuration, and error was evaluated at qguess again.
C3_Witness ==
    /\ pc = "bfgs_iter"
    /\ k > 0
    /\ viewer.q # qguess
    /\ ntrial > 0
    /\ trial.q = qguess

InRun == pc \in {"bfgs_start", "bfgs_iter", "bfgs_cb",
                 "ipopt_solve", "ipopt_iter", "ipopt_cb"}

\* C4: during an optimization run the target placement and the frame index
\* do not change, the graph built from them does not change, and the
\* iterate changes only in a step of the optimizer.
C4_TargetAndFrameReadOnly ==
    [][(InRun) =>
          (/\ UNCHANGED <<tool_id, transform_target_to_world, cdata,
                          error_tool, totalcost>>
           /\ xk' # xk => (BfgsStart \/ BfgsAccept)
           /\ opti' # opti =>
                 (\/ IpoptStart
                  \/ \E q \in Q : IpoptStep(q)
                  \/ \E status \in IpoptStatuses : IpoptFinish(status)))]_vars

\* C4, reached: a run moved the iterate away from the guess and returned.
C4_Witness ==
    /\ pc = "bfgs_print"
    /\ k > 0
    /\ qopt # qguess
    /\ viewer.target = transform_target_to_world

\* C5: once the graph is built, at every configuration the norm of the
\* symbolic residual is the numeric error, and the Path B objective is its
\* square.
C5_SymbolicAgreesWithNumeric ==
    totalcost # NoGraph =>
        \A q \in Q :
            /\ Norm(error_tool[q]) = ErrorOf(q)
            /\ totalcost[q] = Square(ErrorOf(q))

\* C5, reached: the solver evaluated the objective at an iterate where it
\* is not zero.
C5_Witness ==
    /\ pc = "ipopt_cb"
    /\ k > 0
    /\ opti.f > 0
    /\ opti.f = Square(ErrorOf(opti.value))

\* C6: the error is never negative, and it is zero exactly when the tool
\* placement is the target placement, rotation and translation both; so is
\* the value an evaluation returned for the placement it left in the cache.
C6_ErrorZeroIffAtTarget ==
    tool_id \in DOMAIN Frames =>
        /\ \A q \in Q :
              /\ ErrorOf(q).sqrt >= 0
              /\ ErrorOf(q).sqrt = 0 <=>
                    ToolPlacement(q) = transform_target_to_world
        /\ trial # NoTrial =>
              /\ trial.f.sqrt >= 0
              /\ trial.f.sqrt = 0 <=>
                    data.oMf[tool_id] = transform_target_to_world

\* C6, reached: an evaluation returned zero, and another configuration
\* reaches the target's position with another orientation.
C6_Witness ==
    /\ tool_id \in DOMAIN Frames
    /\ trial # NoTrial
    /\ trial.f.sqrt = 0
    /\ \E q \in Q :
          /\ ToolPlacement(q).trans = transform_target_to_world.trans
          /\ ErrorOf(q).sqrt > 0

\* C7: when BFGS stops on precision loss, the call has returned its last
\* iterate into qopt, nothing was raised, the warning is on stderr, and the
\* cell goes on to print the placement of qopt.
C7_PrecisionLossIsNotFatal ==
    warnflag = 2 =>
        /\ pc # "raised"
        /\ qopt = xk
        /\ "Desired error not necessarily achieved due to precision loss." \in stderr
        /\ pc = "bfgs_print" => ENABLED BfgsPrint
        /\ pc # "bfgs_print" =>
              printed.bfgs = placement(qopt, PlacementIndex).value

\* C7, reached: BFGS stopped on precision loss after moving, and the
\* placement of its result was printed.
C7_Witness ==
    /\ warnflag = 2
    /\ k > 0
    /\ printed.bfgs # NoPose

\* C8: every optimizer call returns: a BFGS call that started reaches the
\* statement after it, and so does a solve_limited call (by returning or by
\* raising into the handler).
C8_OptimizersTerminate ==
    /\ (pc = "bfgs_iter") ~> (pc = "bfgs_print")
    /\ (pc = "ipopt_cb") ~> (pc \in {"ipopt_value", "ipopt_except"})

\* C8, reached: both calls used up their iteration budget and returned.
C8_Witness ==
    /\ pc = "ipopt_value"
    /\ warnflag = 1
    /\ k = MaxIter
    /\ opti.status = "Maximum_Iterations_Exceeded"

\* C10: every optimizer run starts at the chosen initial guess and not at
\* the all-zero configuration.
C10_RunsStartAtGuess ==
    /\ (pc = "bfgs_iter" /\ k = 0) => (xk = QGuess /\ xk # ZeroConfig)
    /\ (pc = "ipopt_cb" /\ k = 0) =>
          (opti.value = QGuess /\ opti.value # ZeroConfig)

CallbackPositions == {"bfgs_cb", "ipopt_cb"}

\* The iterate the optimizer at hand holds.
Iterate == IF pc \in {"bfgs_iter", "bfgs_cb"} THEN xk ELSE opti.value

\* One step of the notebook, seen from the callback.
CallbackStepIsSynchronous ==
    /\ (pc \in CallbackPositions) =>
          /\ pc' = (IF pc = "bfgs_cb" THEN "bfgs_iter" ELSE "ipopt_iter")
          /\ viewer'.q = Iterate
          /\ data' = framesForwardKinematics(Iterate)
          /\ UNCHANGED <<xk, trial, ntrial, k, opti>>
    /\ (pc \notin CallbackPositions) => viewer' = viewer
    /\ (InRun /\ k' = k + 1) => pc' \in CallbackPositions
    /\ (pc \notin CallbackPositions /\ pc' \in CallbackPositions) =>
          (k' = k + 1 \/ (pc = "ipopt_solve" /\ k' = 0))
    /\ (InRun /\ data' # data) =>
          \E q \in Q : data' = framesForwardKinematics(q)

\* C11: the callback runs between the steps of the optimizer: every
\* iteration of either optimizer is followed by one callback invocation, on
\* that iteration's iterate; while the callback is due the optimizer neither
\* evaluates the error nor moves; the viewer changes at no other time; and
\* each write of the shared cache is one whole forward-kinematics pass.
C11_CallbackSynchronous == [][CallbackStepIsSynchronous]_vars

\* C11, reached: after a BFGS run of several iterations, the solver's
\* callback displayed the iterate of a later iteration.
C11_Witness ==
    /\ pc = "ipopt_iter"
    /\ k = MaxIter
    /\ warnflag = 1
    /\ viewer.q = opti.value
    /\ opti.value # ZeroConfig
    /\ data = framesForwardKinematics(opti.value)

\* The positions of the cells of Path B.
PathB == {"casadi_model", "casadi_fk", "casadi_error", "casadi_graph",
          "ipopt_setup", "ipopt_solve", "ipopt_cb", "ipopt_iter",
          "ipopt_value", "ipopt_except", "final_print"}

\* The objective of Path B at q, from the model, the frame index and the
\* target alone.
ObjectiveOf(q) ==
    SumSqr[Log6[Compose[Inverse[Kinematics[q].oMf[tool_id]],
                        transform_target_to_world]]]

\* One step of Path B, seen from Path A.
PathBStepSharesOnlyTheCache ==
    (pc \in PathB) =>
       /\ UNCHANGED <<qguess, qopt, xk, trial, ntrial, warnflag, stderr,
                      tool_id, transform_target_to_world>>
       /\ printed'.bfgs = printed.bfgs
       /\ \A q \in Q :
             error(data', q, tool_id', transform_target_to_world').value
               = ErrorOf(q)
       /\ data' # data =>
             /\ pc \in {"ipopt_cb", "final_print"}
             /\ \E q \in Q : data' = framesForwardKinematics(q)
       /\ pc = "ipopt_solve" => opti'.value = ZeroConfig
       /\ opti'.value # opti.value => opti'.f = ObjectiveOf(opti'.value)

\* C12, as stated: no step of Path B writes the numeric cache, qguess or
\* qopt.
C12_PathsIsolated ==
    [][(pc \in PathB) => UNCHANGED <<data, qguess, qopt>>]_vars

\* C12, amended: Path B writes the numeric cache of Path A, in its callback
\* and in the final placement, and nothing else of Path A: qguess, qopt and
\* the values error returns stay as they were; and the solver's start and
\* objective come from the model, the frame index and the target alone.
C12_PathBSharesOnlyTheCache == [][PathBStepSharesOnlyTheCache]_vars

\* C12, reached: the solver's callback overwrote the cache that the BFGS
\* cell left at the placement of qopt.
C12_Witness ==
    /\ pc = "ipopt_iter"
    /\ qopt # qguess
    /\ opti.value # qopt
    /\ data = framesForwardKinematics(opti.value)
    /\ data # framesForwardKinematics(qopt)
    /\ printed.bfgs = placement(qopt, PlacementIndex).value

=============================================================================
